---------------------------- MODULE Spec2Model ----------------------------
(***************************************************************************)
(* pcbnew/convert_drawsegment_list_to_polygon.cpp: rebuilding a polygon    *)
(* with holes from an unordered list of DRAWSEGMENTs.                      *)
(*                                                                         *)
(* A point is a pair <<x, y>> of integers.  A DRAWSEGMENT is a record      *)
(*   [shape, m_Start, m_End, m_Angle, m_Pts]                               *)
(* with the meaning pcbnew gives the fields: for a segment and a rectangle *)
(* m_Start/m_End are the two ends (corners); for an arc and a circle       *)
(* m_Start is the centre and m_End the arc's start point (a point of the   *)
(* circle); m_Angle is the arc's sweep in 0.1 degree; m_Pts holds the      *)
(* points of a polygon or the flattened points of a curve.                 *)
(*                                                                         *)
(* A SHAPE_POLY_SET is a sequence of polygons, a polygon a sequence of     *)
(* contours (the outline first, then its holes), a contour a record        *)
(* [pts, closed].                                                          *)
(***************************************************************************)
EXTENDS Integers, Sequences, FiniteSets, TLC

(***************************************************************************)
(* Bounds of the model.                                                    *)
(***************************************************************************)
MaxCoord == 3
MaxTol == 1

INT_MAX == 2147483647

Abs(n) == IF n < 0 THEN -n ELSE n

X(p) == p[1]
Y(p) == p[2]

(***************************************************************************)
(* Shape queries of DRAWSEGMENT and the geometry helpers they rest on.     *)
(***************************************************************************)
NormalizeAnglePos(a) == ((a % 3600) + 3600) % 3600

\* RotatePoint( &pt, centre, angle ): exact for multiples of 90 degrees.
RotatePoint(pt, centre, angle) ==
    LET a  == NormalizeAnglePos(angle)
        dx == X(pt) - X(centre)
        dy == Y(pt) - Y(centre)
    IN  CASE a = 0    -> pt
          [] a = 900  -> << X(centre) + dy, Y(centre) - dx >>
          [] a = 1800 -> << X(centre) - dx, Y(centre) - dy >>
          [] a = 2700 -> << X(centre) - dy, Y(centre) + dx >>

\* GetArcToSegmentCount( radius, error, degrees ): one chord per 90 degrees.
GetArcToSegmentCount(aRadius, aErrorMax, aArcAngleDegree) ==
    Abs(aArcAngleDegree) \div 90

GetShape(g)    == g.shape
GetStart(g)    == g.m_Start
GetEnd(g)      == g.m_End
GetCenter(g)   == g.m_Start
GetArcStart(g) == g.m_End
GetAngle(g)    == g.m_Angle
GetArcEnd(g)   == IF g.shape = "S_ARC"
                  THEN RotatePoint(g.m_End, g.m_Start, -g.m_Angle)
                  ELSE g.m_End
\* The radius of an arc or circle whose m_End lies on an axis through the centre.
GetRadius(g)   == Abs(X(g.m_End) - X(g.m_Start)) + Abs(Y(g.m_End) - Y(g.m_Start))
GetRectCorners(g) ==
    << g.m_Start, << X(g.m_End), Y(g.m_Start) >>, g.m_End, << X(g.m_Start), Y(g.m_End) >> >>
GetBezierPoints(g) == g.m_Pts
\* GetPolyShape() of an item with no parent footprint: orientation 0, offset (0,0).
GetPolyShape(g) == g.m_Pts
GetPosition(g) == IF g.shape = "S_POLYGON" /\ Len(g.m_Pts) > 0 THEN g.m_Pts[1] ELSE g.m_Start

NULL == [shape |-> "NULL", m_Start |-> <<0, 0>>, m_End |-> <<0, 0>>, m_Angle |-> 0, m_Pts |-> <<>>]

(***************************************************************************)
(* Proximity primitives.                                                   *)
(***************************************************************************)
close_ness(aLeft, aRight) ==
    Abs(X(aLeft) - X(aRight)) + Abs(Y(aLeft) - Y(aRight))

close_enough(aLeft, aRight, aLimit) == close_ness(aLeft, aRight) <= aLimit

close_st(aReference, aFirst, aSecond) ==
    close_ness(aReference, aFirst) <= close_ness(aReference, aSecond)

(***************************************************************************)
(* findPoint: the scan loop, then the choice of the closest candidate.     *)
(* Indices are 1-based; the scan state is [exact, min_d, ndx_min].         *)
(***************************************************************************)
FirstEnd(g)  == IF GetShape(g) = "S_ARC" THEN GetArcStart(g) ELSE GetStart(g)

\* A faulty second end, which takes m_End of an arc, its start, for its end.
SecondEndOfSegment(g) == GetEnd(g)

SecondEnd(g) == IF GetShape(g) = "S_ARC" THEN GetArcEnd(g) ELSE GetEnd(g)

\* A faulty erase, which drops the head of the list whatever the index: with it
\* a primitive can be taken twice and another never.
RemoveHead(s, i) == Tail(s)

RemoveAt(s, i) == SubSeq(s, 1, i - 1) \o SubSeq(s, i + 1, Len(s))

RECURSIVE findPointScan(_, _, _, _, _)
findPointScan(aPoint, aList, i, min_d, ndx_min) ==
    IF i > Len(aList)
    THEN [exact |-> FALSE, min_d |-> min_d, ndx |-> ndx_min]
    ELSE LET graphic == aList[i]
             a  == FirstEnd(graphic)
             b  == SecondEnd(graphic)
             d1 == close_ness(aPoint, a)
             m1 == IF d1 < min_d THEN d1 ELSE min_d
             n1 == IF d1 < min_d THEN i ELSE ndx_min
             d2 == close_ness(aPoint, b)
             m2 == IF d2 < m1 THEN d2 ELSE m1
             n2 == IF d2 < m1 THEN i ELSE n1
         IN  IF aPoint = a \/ aPoint = b
             THEN [exact |-> TRUE, min_d |-> 0, ndx |-> i]
             ELSE findPointScan(aPoint, aList, i + 1, m2, n2)

\* The result: the DRAWSEGMENT found (or NULL) and the list after the erase.
\* A faulty findPoint, which returns the closest DRAWSEGMENT however far it is.
findPointNoLimit(aPoint, aList, aLimit) ==
    LET s == findPointScan(aPoint, aList, 1, INT_MAX, 1)
    IN  IF aList # <<>>
        THEN [graphic |-> aList[s.ndx], list |-> RemoveAt(aList, s.ndx)]
        ELSE [graphic |-> NULL, list |-> aList]

\* A faulty findPoint, which returns the DRAWSEGMENT it found and leaves it in
\* the list.
findPointKeeps(aPoint, aList, aLimit) ==
    LET s == findPointScan(aPoint, aList, 1, INT_MAX, 1)
    IN  IF s.exact \/ s.min_d <= aLimit
        THEN [graphic |-> aList[s.ndx], list |-> aList]
        ELSE [graphic |-> NULL, list |-> aList]

findPoint(aPoint, aList, aLimit) ==
    LET s == findPointScan(aPoint, aList, 1, INT_MAX, 1)
    IN  IF s.exact \/ s.min_d <= aLimit
        THEN [graphic |-> aList[s.ndx], list |-> RemoveAt(aList, s.ndx)]
        ELSE [graphic |-> NULL, list |-> aList]

(***************************************************************************)
(* SHAPE_POLY_SET and SEG, as far as the conversion uses them.             *)
(***************************************************************************)
NewContour == [pts |-> <<>>, closed |-> TRUE]

OutlineCount(ps) == Len(ps)
HoleCount(ps, aOutline) == Len(ps[aOutline + 1]) - 1

NewOutline(ps) == Append(ps, << NewContour >>)

\* NewHole(): a new hole of the last polygon.
NewHole(ps) == [ps EXCEPT ![Len(ps)] = Append(@, NewContour)]

\* The index NewHole() returns for the hole it just added.
NewHoleIndex(ps) == Len(ps[Len(ps)]) - 2

\* Append( pt, -1, aHole ): to the last polygon; aHole = -1 is its outline.
\* A point equal to the contour's last point is not added again.
AppendPoint(ps, pt, aHole) ==
    [ps EXCEPT ![Len(ps)][aHole + 2].pts =
        IF @ # <<>> /\ @[Len(@)] = pt THEN @ ELSE Append(@, pt)]

RECURSIVE AppendPoints(_, _, _)
AppendPoints(ps, pts, aHole) ==
    IF pts = <<>> THEN ps
    ELSE AppendPoints(AppendPoint(ps, Head(pts), aHole), Tail(pts), aHole)

\* Hole( aOutline, aHole ).SetClosed( aClosed )
SetHoleClosed(ps, aOutline, aHole, aClosed) ==
    [ps EXCEPT ![aOutline + 1][aHole + 2].closed = aClosed]

\* Whether polygon aOutline has a hole aHole: whether Hole( aOutline, aHole )
\* refers to a contour at all.
HoleExists(ps, aOutline, aHole) ==
    /\ aOutline + 1 \in DOMAIN ps
    /\ aHole + 2 \in DOMAIN ps[aOutline + 1]

\* SegmentCount() of a SHAPE_LINE_CHAIN.
SegmentCount(c) ==
    LET n == Len(c.pts) - 1 + (IF c.closed THEN 1 ELSE 0)
    IN  IF n < 0 THEN 0 ELSE n

\* The segments of one contour, the closing one included when it is closed.
ContourSegments(c) ==
    [i \in 1..SegmentCount(c) |->
        [A |-> c.pts[i], B |-> c.pts[(i % Len(c.pts)) + 1]]]

RECURSIVE Flatten(_)
Flatten(ss) == IF ss = <<>> THEN <<>> ELSE Head(ss) \o Flatten(Tail(ss))

\* IterateSegmentsWithHoles(): every polygon in turn, its outline, then its holes.
IterateSegmentsWithHoles(ps) ==
    Flatten([p \in 1..Len(ps) |->
                Flatten([k \in 1..Len(ps[p]) |-> ContourSegments(ps[p][k])])])

Cross(u, v) == X(u) * Y(v) - Y(u) * X(v)

Sign(n) == IF n < 0 THEN -1 ELSE 1

\* rescale( aNumerator, aValue, aDenominator ): rounded to the nearest integer.
rescale(aNumerator, aValue, aDenominator) ==
    Sign(aNumerator) * Sign(aValue) * Sign(aDenominator)
        * ((Abs(aNumerator) * Abs(aValue) + Abs(aDenominator) \div 2) \div Abs(aDenominator))

NoPoint == <<>>

\* SEG::Intersect( aSeg, aIgnoreEndpoints = true ): the crossing point or NoPoint.
Intersect(s, aSeg) ==
    LET e  == << X(s.B) - X(s.A), Y(s.B) - Y(s.A) >>
        f  == << X(aSeg.B) - X(aSeg.A), Y(aSeg.B) - Y(aSeg.A) >>
        ac == << X(aSeg.A) - X(s.A), Y(aSeg.A) - Y(s.A) >>
        d  == Cross(f, e)
        p  == Cross(f, ac)
        q  == Cross(e, ac)
    IN  IF d = 0 THEN NoPoint
        ELSE IF d > 0 /\ (q < 0 \/ q > d \/ p < 0 \/ p > d) THEN NoPoint
        ELSE IF d < 0 /\ (q < d \/ p < d \/ p > 0 \/ q > 0) THEN NoPoint
        ELSE IF (q = 0 \/ q = d) /\ (p = 0 \/ p = d) THEN NoPoint
        ELSE << X(aSeg.A) + rescale(q, X(f), d), Y(aSeg.A) + rescale(q, Y(f), d) >>

(***************************************************************************)
(* ConvertOutlineToPolygon: the scan for the left most point.              *)
(***************************************************************************)
\* The points an arc is flattened to: pstart turned about pcenter, step by step.
ArcPoints(pstart, pcenter, angle, steps) ==
    [step \in 1..steps |-> RotatePoint(pstart, pcenter, (angle * step) \div steps)]

\* A faulty scan, which does not test the radius of a circle.
XminCandidatesAnyRadius(graphic, aTolerance) ==
    CASE GetShape(graphic) \in {"S_RECT", "S_SEGMENT"} ->
            << GetStart(graphic), GetEnd(graphic) >>
      [] GetShape(graphic) = "S_ARC" ->
            LET angle == -GetAngle(graphic)
                steps == GetArcToSegmentCount(GetRadius(graphic), aTolerance, angle \div 10)
            IN  ArcPoints(GetArcStart(graphic), GetCenter(graphic), angle, steps)
      [] GetShape(graphic) = "S_CIRCLE" ->
            IF TRUE
            THEN << << X(GetCenter(graphic)) - GetRadius(graphic), Y(GetCenter(graphic)) >> >>
            ELSE <<>>
      [] GetShape(graphic) = "S_CURVE" -> GetBezierPoints(graphic)
      [] GetShape(graphic) = "S_POLYGON" -> GetPolyShape(graphic)
      [] OTHER -> <<>>

\* The points one DRAWSEGMENT offers to the scan, in the order it compares them.
XminCandidates(graphic, aTolerance) ==
    CASE GetShape(graphic) \in {"S_RECT", "S_SEGMENT"} ->
            << GetStart(graphic), GetEnd(graphic) >>
      [] GetShape(graphic) = "S_ARC" ->
            LET angle == -GetAngle(graphic)
                steps == GetArcToSegmentCount(GetRadius(graphic), aTolerance, angle \div 10)
            IN  ArcPoints(GetArcStart(graphic), GetCenter(graphic), angle, steps)
      [] GetShape(graphic) = "S_CIRCLE" ->
            IF GetRadius(graphic) > 0
            THEN << << X(GetCenter(graphic)) - GetRadius(graphic), Y(GetCenter(graphic)) >> >>
            ELSE <<>>
      [] GetShape(graphic) = "S_CURVE" -> GetBezierPoints(graphic)
      [] GetShape(graphic) = "S_POLYGON" -> GetPolyShape(graphic)
      [] OTHER -> <<>>

\* Scan state: [x, i] = (xmin.x, xmini), xmini 1-based.
RECURSIVE XminFold(_, _, _)
XminFold(pts, i, acc) ==
    IF pts = <<>> THEN acc
    ELSE XminFold(Tail(pts), i,
                  IF X(Head(pts)) < acc.x THEN [x |-> X(Head(pts)), i |-> i] ELSE acc)

RECURSIVE XminScan(_, _, _, _)
XminScan(list, aTolerance, i, acc) ==
    IF i > Len(list) THEN acc
    ELSE XminScan(list, aTolerance, i + 1,
                  XminFold(XminCandidates(list[i], aTolerance), i, acc))

\* A faulty choice of the start, which takes the first DRAWSEGMENT of the list.
xminiFirst(list, aTolerance) == 1

xmini(list, aTolerance) == XminScan(list, aTolerance, 1, [x |-> INT_MAX, i |-> 1]).i

(***************************************************************************)
(* ConvertOutlineToPolygon: the shapes emitted whole, and one step of a    *)
(* chain walk.                                                             *)
(***************************************************************************)
IsClosedShape(graphic) == GetShape(graphic) \in {"S_CIRCLE", "S_RECT", "S_POLYGON"}

\* The ring of a circle: start = centre + (radius, 0), turned step by step.
CirclePoints(graphic, aTolerance) ==
    LET center == GetCenter(graphic)
        radius == GetRadius(graphic)
        steps  == GetArcToSegmentCount(radius, aTolerance, 360)
        start  == << X(center) + radius, Y(center) >>
    IN  [k \in 1..steps |-> RotatePoint(start, center, (3600 * (k - 1)) \div steps)]

ClosedShapePoints(graphic, aTolerance) ==
    CASE GetShape(graphic) = "S_CIRCLE"  -> CirclePoints(graphic, aTolerance)
      [] GetShape(graphic) = "S_RECT"    -> GetRectCorners(graphic)
      [] GetShape(graphic) = "S_POLYGON" -> GetPolyShape(graphic)

\* TransformCircleToPolygon( aPolygons, center, radius, aTolerance )
TransformCircleToPolygon(ps, graphic, aTolerance) ==
    AppendPoints(NewOutline(ps), CirclePoints(graphic, aTolerance), -1)

IsChainShape(graphic) == GetShape(graphic) \in {"S_SEGMENT", "S_ARC", "S_CURVE"}

\* A faulty case S_SEGMENT, which always walks to GetStart(): with it a closed
\* loop whose segments are not all drawn head to tail does not close.
SegmentNextPtStart(graphic, prevPt) == GetStart(graphic)

\* A faulty case S_SEGMENT, which walks to the end point nearest to prevPt.
SegmentNextPtNear(graphic, prevPt) ==
    IF close_st(prevPt, GetStart(graphic), GetEnd(graphic))
    THEN GetStart(graphic)
    ELSE GetEnd(graphic)

\* case S_SEGMENT: the end point furthest away from prevPt.
SegmentNextPt(graphic, prevPt) ==
    IF close_st(prevPt, GetStart(graphic), GetEnd(graphic))
    THEN GetEnd(graphic)
    ELSE GetStart(graphic)

\* case S_ARC: whether the arc is walked from its end to its start.
ArcReversed(graphic, prevPt, aTolerance) ==
    ~close_enough(prevPt, GetArcStart(graphic), aTolerance)

ArcWalkPoints(graphic, prevPt, aTolerance) ==
    LET angle == -GetAngle(graphic)
        steps == GetArcToSegmentCount(GetRadius(graphic), aTolerance, angle \div 10)
    IN  IF ArcReversed(graphic, prevPt, aTolerance)
        THEN ArcPoints(GetArcEnd(graphic), GetCenter(graphic), -angle, steps)
        ELSE ArcPoints(GetArcStart(graphic), GetCenter(graphic), angle, steps)

Reverse(s) == [i \in 1..Len(s) |-> s[Len(s) + 1 - i]]

\* case S_CURVE: the flattened points, backwards when the start is the far end.
CurveWalkPoints(graphic, prevPt) ==
    IF close_st(prevPt, GetStart(graphic), GetEnd(graphic))
    THEN GetBezierPoints(graphic)
    ELSE Reverse(GetBezierPoints(graphic))

\* The points the switch appends for graphic, and prevPt after it.
WalkPoints(graphic, prevPt, aTolerance) ==
    CASE GetShape(graphic) = "S_SEGMENT" -> << SegmentNextPt(graphic, prevPt) >>
      [] GetShape(graphic) = "S_ARC"     -> ArcWalkPoints(graphic, prevPt, aTolerance)
      [] GetShape(graphic) = "S_CURVE"   -> CurveWalkPoints(graphic, prevPt)

WalkNextPt(graphic, prevPt, aTolerance) ==
    CASE GetShape(graphic) = "S_SEGMENT" -> SegmentNextPt(graphic, prevPt)
      [] GetShape(graphic) = "S_ARC" ->
            LET pts == ArcWalkPoints(graphic, prevPt, aTolerance)
            IN  IF pts = <<>> THEN <<0, 0>> ELSE pts[Len(pts)]
      [] GetShape(graphic) = "S_CURVE" -> SegmentNextPt(graphic, prevPt)

(***************************************************************************)
(* ConvertOutlineToPolygon: the check of the polygons built.               *)
(***************************************************************************)
\* A faulty test of overlap, which misses a segment and its reverse.
SameDirection(s1, s2) == s1.A = s2.A /\ s1.B = s2.B

SameSegment(s1, s2) ==
    \/ (s1.A = s2.A /\ s1.B = s2.B)
    \/ (s1.A = s2.B /\ s1.B = s2.A)

SegmentsCollide(s1, s2) == SameSegment(s1, s2) \/ Intersect(s1, s2) # NoPoint

CollidingPairs(segs) ==
    {pr \in (1..Len(segs)) \X (1..Len(segs)) :
        pr[1] < pr[2] /\ SegmentsCollide(segs[pr[1]], segs[pr[2]])}

\* A faulty scan, which reports the last colliding pair instead of the first.
LastPair(pairs) ==
    CHOOSE pr \in pairs :
        \A o \in pairs : pr[1] > o[1] \/ (pr[1] = o[1] /\ pr[2] >= o[2])

\* The first pair the two nested loops meet.
FirstPair(pairs) ==
    CHOOSE pr \in pairs :
        \A o \in pairs : pr[1] < o[1] \/ (pr[1] = o[1] /\ pr[2] <= o[2])

\* A faulty check, which looks for repeated segments only and lets crossings by.
CheckDuplicatesOnly(ps) ==
    LET segs  == IterateSegmentsWithHoles(ps)
        pairs == { pr \in CollidingPairs(segs) : SameSegment(segs[pr[1]], segs[pr[2]]) }
    IN  IF pairs = {} THEN [found |-> FALSE, location |-> NoPoint]
        ELSE [found |-> TRUE, location |-> segs[FirstPair(pairs)[1]].A]

\* [found, location] of the first colliding pair of segments.
CheckSegments(ps) ==
    LET segs  == IterateSegmentsWithHoles(ps)
        pairs == CollidingPairs(segs)
    IN  IF pairs = {} THEN [found |-> FALSE, location |-> NoPoint]
        ELSE LET pr == FirstPair(pairs)
                 s1 == segs[pr[1]]
                 s2 == segs[pr[2]]
             IN  [found |-> TRUE,
                  location |-> IF SameSegment(s1, s2) THEN s1.A ELSE Intersect(s1, s2)]

(***************************************************************************)
(* EDA_RECT and BOARD, as far as the two callers of the conversion use     *)
(* them.  A rectangle is [pos, size]; a board gives the bounding box of    *)
(* its edges, the bounding box of all its items, and the pads of its first *)
(* footprint, a pad being the sequence of the answers of                   *)
(* aShape.Collide( seg ) for the segments of its shape.                    *)
(***************************************************************************)
EDA_RECT(pos, size) == [pos |-> pos, size |-> size]

GetWidth(r)  == X(r.size)
GetHeight(r) == Y(r.size)
GetOrigin(r) == r.pos
GetRectEnd(r) == << X(r.pos) + X(r.size), Y(r.pos) + Y(r.size) >>

\* Inflate( dx ) of a rectangle of sizes >= 0, by dx > 0 on every side.
Inflate(r, dx) ==
    [pos |-> << X(r.pos) - dx, Y(r.pos) - dx >>,
     size |-> << X(r.size) + 2 * dx, Y(r.size) + 2 * dx >>]

IU_PER_MM == 1000000
Millimeter2iu(mm) == mm * IU_PER_MM

GetBoardEdgesBoundingBox(aBoard) == aBoard.edges
ComputeBoundingBox(aBoard) == aBoard.all
GetBoundingBox(aBoard) == aBoard.all
Pads(aBoard) == aBoard.pads

IsNullArea(r) == GetWidth(r) = 0 \/ GetHeight(r) = 0

\* A faulty choice of the box, which never asks for the box of all items.
NonNullBoxOfFirst(bbbox, whole) ==
    IF IsNullArea(bbbox) THEN Inflate(bbbox, Millimeter2iu(1)) ELSE bbbox

\* The box the rectangular outline is made of: bbbox, or the box of all the
\* items when its area is null, inflated by 1 mm when that one is null too.
NonNullBox(bbbox, whole) ==
    LET b == IF IsNullArea(bbbox) THEN whole ELSE bbbox
    IN  IF IsNullArea(b) THEN Inflate(b, Millimeter2iu(1)) ELSE b

\* RemoveAllContours(); NewOutline(); and the four corners of bbbox.
BoxOutline(bbbox) ==
    AppendPoints(NewOutline(<<>>),
                 << GetOrigin(bbbox),
                    << X(GetOrigin(bbbox)), Y(GetRectEnd(bbbox)) >>,
                    GetRectEnd(bbbox),
                    << X(GetRectEnd(bbbox)), Y(GetOrigin(bbbox)) >> >>, -1)

buildBoardBoundingBoxPoly(aBoard) ==
    BoxOutline(NonNullBox(GetBoundingBox(aBoard), ComputeBoundingBox(aBoard)))

\* AddHole( aHole, -1 ): one more hole of the last polygon.
AddHole(ps, aHole) == [ps EXCEPT ![Len(ps)] = Append(@, aHole)]

RECURSIVE AddHoles(_, _)
AddHoles(ps, holes) ==
    IF holes = <<>> THEN ps ELSE AddHoles(AddHole(ps, Head(holes)), Tail(holes))

\* SHAPE_POLY_SET::Collide: a shape without an outline collides with nothing.
Collidable(aShape, pads) ==
    OutlineCount(aShape) = 0
        => \A i \in DOMAIN pads : \A j \in DOMAIN pads[i] : ~pads[i][j]

\* A faulty test, which asks every segment of every pad to be outside.
isCopperOutsideAll(pads) ==
    \A i \in DOMAIN pads : \A j \in DOMAIN pads[i] : ~pads[i][j]

\* isCopperOutside: a segment of a pad does not collide with the shape.
isCopperOutside(pads) ==
    \E i \in DOMAIN pads : \E j \in DOMAIN pads[i] : ~pads[i][j]

(***************************************************************************)
(* The inputs of the model: DRAWSEGMENT lists over a small grid.           *)
(***************************************************************************)
Segment(a, b) ==
    [shape |-> "S_SEGMENT", m_Start |-> a, m_End |-> b, m_Angle |-> 0, m_Pts |-> <<>>]
Arc(centre, start, angle) ==
    [shape |-> "S_ARC", m_Start |-> centre, m_End |-> start, m_Angle |-> angle, m_Pts |-> <<>>]
Circle(centre, radius) ==
    [shape |-> "S_CIRCLE", m_Start |-> centre, m_End |-> << X(centre) + radius, Y(centre) >>,
     m_Angle |-> 0, m_Pts |-> <<>>]
Rect(a, b) ==
    [shape |-> "S_RECT", m_Start |-> a, m_End |-> b, m_Angle |-> 0, m_Pts |-> <<>>]
Polygon(pts) ==
    [shape |-> "S_POLYGON", m_Start |-> <<0, 0>>, m_End |-> <<0, 0>>, m_Angle |-> 0, m_Pts |-> pts]
Curve(pts) ==
    [shape |-> "S_CURVE", m_Start |-> pts[1], m_End |-> pts[Len(pts)], m_Angle |-> 0, m_Pts |-> pts]

Tolerances == 0..MaxTol

\* The side of the outer box, and the grid the free primitives live on.
Side == MaxCoord
SmallPoints == (0..(MaxCoord - 1)) \X (0..1)

InGrid(p) == X(p) \in 0..MaxCoord /\ Y(p) \in 0..MaxCoord

Box(lo, hi) == { <<lo, lo>>, <<hi, lo>>, <<hi, hi>>, <<lo, hi>> }

\* Every closed path of 3 or 4 distinct corners of a box: triangles, squares, bowties.
Cycles(P) ==
    { c \in UNION { [1..n -> P] : n \in 3..4 } :
        \A i, j \in DOMAIN c : i # j => c[i] # c[j] }

LoopSegments(c) == [i \in 1..Len(c) |-> Segment(c[i], c[(i % Len(c)) + 1])]

FlipSegment(g) == [g EXCEPT !.m_Start = g.m_End, !.m_End = g.m_Start]

Flipped(list, mask) ==
    [i \in 1..Len(list) |-> IF i \in mask THEN FlipSegment(list[i]) ELSE list[i]]

Loops(P) ==
    { Flipped(LoopSegments(c), mask) : c \in Cycles(P), mask \in SUBSET (1..4) }

Moves == { <<1, 0>>, <<-1, 0>>, <<0, 1>>, <<0, -1>> }

\* A loop with the end point of one segment moved by one unit: a gap.
GapLoops(P) ==
    { [LoopSegments(c) EXCEPT ![i].m_End = << X(@) + X(m), Y(@) + Y(m) >>] :
        <<c, i, m>> \in
            { t \in Cycles(P) \X (1..4) \X Moves :
                /\ t[2] <= Len(t[1])
                /\ InGrid(<< X(t[1][(t[2] % Len(t[1])) + 1]) + X(t[3]),
                            Y(t[1][(t[2] % Len(t[1])) + 1]) + Y(t[3]) >>) } }

\* The primitives of the free inputs.
FreePrimitives ==
    { Segment(a, b) : a, b \in SmallPoints }
    \cup { Arc(<<1, 1>>, << 1 + X(m), 1 + Y(m) >>, a) :
             m \in { <<1, 0>>, <<0, -1>> }, a \in {900, -900, 1800, -1800} }
    \cup { Circle(<<1, 1>>, r) : r \in 0..1 }
    \cup { Rect(<<0, 0>>, <<MaxCoord, MaxCoord>>), Rect(<<1, 1>>, <<2, 2>>) }
    \cup { Polygon(<< <<0, 0>>, <<2, 0>>, <<0, 2>> >>), Polygon(<< <<1, 1>> >>) }
    \cup { Curve(<< <<0, 0>>, <<1, 1>>, <<2, 0>> >>), Curve(<< <<2, 2>>, <<2, 1>> >>) }

FreeInputs == UNION { [1..n -> FreePrimitives] : n \in 0..2 }

OuterLoops ==
    Loops(Box(0, Side)) \cup { LoopSegments(c) : c \in Cycles(Box(0, Side - 1)) }

\* A half or quarter circle about (1,1), closed by two segments over a point of
\* the top row; in the three rotations of the list.
Arcs == { Arc(<<1, 1>>, <<2, 1>>, a) : a \in {900, -900, 1800, -1800} }

Rotations(list) ==
    { [i \in 1..Len(list) |-> list[((i + k - 1) % Len(list)) + 1]] : k \in 0..(Len(list) - 1) }

ArcLoops ==
    UNION { Rotations(<< a, Segment(GetArcEnd(a), << x, MaxCoord >>),
                         Segment(GetArcStart(a), << x, MaxCoord >>) >>) :
            a \in Arcs, x \in 0..MaxCoord }

\* The loops that start at the origin, as the first part of a longer input.
BaseLoops == { LoopSegments(c) : c \in { k \in Cycles(Box(0, Side)) : k[1] = <<0, 0>> } }

InnerLoops ==
    { LoopSegments(c) :
        c \in { k \in Cycles(Box(1, Side - 1)) : k[1] \in { <<1, 1>>, <<Side - 1, Side - 1>> } } }

Interleave(a, b) ==
    [i \in 1..(Len(a) + Len(b)) |->
        IF i <= 2 * Len(a) /\ i <= 2 * Len(b)
        THEN (IF i % 2 = 1 THEN a[(i + 1) \div 2] ELSE b[i \div 2])
        ELSE IF Len(a) > Len(b) THEN a[i - Len(b)] ELSE b[i - Len(a)]]

NestedInputs ==
    UNION { { a \o b, b \o a, Interleave(a, b) } : a \in BaseLoops, b \in InnerLoops }

ExtraInputs ==
    UNION { { a \o <<g>>, <<g>> \o a } : a \in BaseLoops, g \in FreePrimitives }

\* Three triangles in a row, apart from each other, each with a corner one unit
\* away from a corner of the next.
LeftTriangle   == LoopSegments(<< <<0, 0>>, <<Side - 2, 1>>, <<0, 2>> >>)
MiddleTriangle == LoopSegments(<< <<Side - 1, 1>>, <<Side - 1, 0>>, <<Side, 0>> >>)
RightTriangle  == LoopSegments(<< <<Side, 1>>, <<Side, Side>>, <<Side - 1, Side>> >>)

NeighbourLoops ==
    { LeftTriangle \o MiddleTriangle \o RightTriangle,
      RightTriangle \o MiddleTriangle \o LeftTriangle,
      MiddleTriangle \o LeftTriangle,
      LeftTriangle \o RightTriangle }

\* The boards of the model: with and without area, with and without copper
\* outside the shape.
WideBox == EDA_RECT(<<0, 0>>, << Side + 1, Side + 1 >>)
FlatBox == EDA_RECT(<<0, 0>>, << Side, 0 >>)
NullBox == EDA_RECT(<<1, 1>>, <<0, 0>>)

Boards ==
    { [edges |-> WideBox, all |-> WideBox, pads |-> <<>>],
      [edges |-> FlatBox, all |-> WideBox, pads |-> << <<TRUE, TRUE>> >>],
      [edges |-> NullBox, all |-> NullBox, pads |-> << <<TRUE>>, <<TRUE, FALSE>> >>],
      [edges |-> WideBox, all |-> WideBox, pads |-> << <<FALSE>> >>] }

\* A rectangle around a hole of a segment and an arc, the segment drawn from
\* the end of the arc, or from a point next to it, to its start.
ArcHoles ==
    { << Rect(<<0, 0>>, <<MaxCoord, MaxCoord>>),
         Segment(<< X(GetArcEnd(t[1])) + X(t[2]), Y(GetArcEnd(t[1])) + Y(t[2]) >>,
                 GetArcStart(t[1])),
         t[1] >> :
        t \in { u \in Arcs \X (Moves \cup { <<0, 0>> }) :
                  InGrid(<< X(GetArcEnd(u[1])) + X(u[2]), Y(GetArcEnd(u[1])) + Y(u[2]) >>) } }

Inputs ==
    FreeInputs \cup OuterLoops \cup ArcLoops \cup GapLoops(Box(0, Side))
        \cup NestedInputs \cup ExtraInputs \cup NeighbourLoops \cup ArcHoles

(***************************************************************************)
(* The state: the arguments and locals of one call of                      *)
(* ConvertOutlineToPolygon, where the call stands (pc), what it returned   *)
(* (result, once pc = "done"), and a record of what each walk did.         *)
(*   walked : the DRAWSEGMENTs taken from segList, each with the contour   *)
(*            it went to (-1 the outline, else the hole's index)           *)
(*   ends   : how each contour ended: "shape", "closed", "unclosed" or     *)
(*            "unsupported" (the return out of the switch of a walk)       *)
(*   call   : 1 for the first call; 2 for a second call of the same        *)
(*            caller, which keeps the first call's outcome in first        *)
(***************************************************************************)
VARIABLES aSegList, aTolerance, aPolygons, aErrorLocation,
          segList, graphic, prevPt, startPt, holeNum, hole, polygonComplete,
          pc, result, walked, ends, call, first, top, fp

vars == << aSegList, aTolerance, aPolygons, aErrorLocation,
           segList, graphic, prevPt, startPt, holeNum, hole, polygonComplete,
           pc, result, walked, ends, call, first, top, fp >>

locals == << segList, graphic, prevPt, startPt, holeNum, hole, polygonComplete >>

NoCall == [kind |-> "none", aSegList |-> <<>>, aTolerance |-> 0, aPolygons |-> <<>>,
           aErrorLocation |-> NoPoint, polygonComplete |-> TRUE, result |-> TRUE,
           ends |-> <<>>]

Entry(list, tol) ==
    /\ aSegList = list
    /\ aTolerance = tol
    /\ aPolygons = <<>>
    /\ aErrorLocation = NoPoint
    /\ segList = <<>>
    /\ graphic = NULL
    /\ prevPt = <<0, 0>>
    /\ startPt = <<0, 0>>
    /\ holeNum = -1
    /\ hole = -1
    /\ polygonComplete = TRUE
    /\ pc = "start"
    /\ result = TRUE
    /\ walked = <<>>
    /\ ends = <<>>

\* A rectangle, or the pads, that a caller did not ask the board for.
NoBox == EDA_RECT(<<0, 0>>, <<-1, -1>>)
NoPads == <<>>

\* No caller of the conversion has returned; aOutlines is the empty set of
\* polygons the caller starts with.
NoTop == [caller |-> "none", success |-> FALSE, aOutlines |-> <<>>,
          edges |-> NoBox, all |-> NoBox, pads |-> NoPads]

\* No call of findPoint on its own.
NoFp == [at |-> "none", aPoint |-> <<0, 0>>, aList |-> <<>>, aLimit |-> 0,
         graphic |-> NULL, list |-> <<>>]

\* A tolerance as wide as the chord of the arcs of ArcLoops.
WideTolerance == MaxTol + 1

Init ==
    /\ \/ \E list \in Inputs, tol \in Tolerances : Entry(list, tol)
       \/ \E list \in ArcLoops : Entry(list, WideTolerance)
    /\ call = 1
    /\ first = NoCall
    /\ top = NoTop
    /\ fp = NoFp

\* A faulty return, which leaves an empty outline in the polygons.
ReturnEmptyOutline ==
    /\ pc = "start"
    /\ Len(aSegList) = 0
    /\ pc' = "done"
    /\ result' = TRUE
    /\ aPolygons' = NewOutline(aPolygons)
    /\ UNCHANGED << aSegList, aTolerance, aErrorLocation, locals,
                    walked, ends, call, first, top, fp >>

\* if( aSegList.size() == 0 ) return true;
ReturnEmpty ==
    /\ pc = "start"
    /\ Len(aSegList) = 0
    /\ pc' = "done"
    /\ result' = TRUE
    /\ UNCHANGED << aSegList, aTolerance, aPolygons, aErrorLocation, locals,
                    walked, ends, call, first, top, fp >>

\* The left most DRAWSEGMENT is a circle, a rectangle or a polygon: the outline.
OutlineShape ==
    /\ pc = "start"
    /\ Len(aSegList) > 0
    /\ LET i == xmini(aSegList, aTolerance)
           g == aSegList[i]
       IN  /\ IsClosedShape(g)
           /\ graphic' = g
           /\ segList' = RemoveAt(aSegList, i)
           /\ aPolygons' = IF GetShape(g) = "S_CIRCLE"
                           THEN TransformCircleToPolygon(aPolygons, g, aTolerance)
                           ELSE AppendPoints(NewOutline(aPolygons),
                                             ClosedShapePoints(g, aTolerance), -1)
           /\ walked' = Append(walked, [graphic |-> g, contour |-> -1])
           /\ ends' = Append(ends, [contour |-> -1, how |-> "shape", at |-> NoPoint])
    /\ pc' = "holes"
    /\ UNCHANGED << aSegList, aTolerance, aErrorLocation, prevPt, startPt, holeNum, hole,
                    polygonComplete, result, call, first, top, fp >>

\* A faulty start of the outline's walk, which erases the left most DRAWSEGMENT
\* from the caller's list instead of from a copy of it.
OutlineSeedInPlace ==
    /\ pc = "start"
    /\ Len(aSegList) > 0
    /\ LET i == xmini(aSegList, aTolerance)
           g == aSegList[i]
           p == IF GetShape(g) = "S_ARC" THEN GetArcEnd(g) ELSE GetEnd(g)
       IN  /\ ~IsClosedShape(g)
           /\ graphic' = g
           /\ aSegList' = RemoveAt(aSegList, i)
           /\ segList' = RemoveAt(aSegList, i)
           /\ startPt' = p
           /\ prevPt' = p
           /\ aPolygons' = AppendPoint(NewOutline(aPolygons), p, -1)
           /\ walked' = Append(walked, [graphic |-> g, contour |-> -1])
    /\ pc' = "outline"
    /\ UNCHANGED << aTolerance, aErrorLocation, holeNum, hole,
                    polygonComplete, result, ends, call, first, top, fp >>

\* Else the outline is a chain that starts at one end of the left most DRAWSEGMENT.
OutlineSeed ==
    /\ pc = "start"
    /\ Len(aSegList) > 0
    /\ LET i == xmini(aSegList, aTolerance)
           g == aSegList[i]
           p == IF GetShape(g) = "S_ARC" THEN GetArcEnd(g) ELSE GetEnd(g)
       IN  /\ ~IsClosedShape(g)
           /\ graphic' = g
           /\ segList' = RemoveAt(aSegList, i)
           /\ startPt' = p
           /\ prevPt' = p
           /\ aPolygons' = AppendPoint(NewOutline(aPolygons), p, -1)
           /\ walked' = Append(walked, [graphic |-> g, contour |-> -1])
    /\ pc' = "outline"
    /\ UNCHANGED << aSegList, aTolerance, aErrorLocation, holeNum, hole,
                    polygonComplete, result, ends, call, first, top, fp >>

\* A faulty default: which only breaks out of the walk, so that the call goes
\* on with the DRAWSEGMENTs left.
WalkUnsupportedGoesOn ==
    /\ pc \in {"outline", "hole"}
    /\ ~IsChainShape(graphic)
    /\ aErrorLocation' = GetPosition(graphic)
    /\ polygonComplete' = FALSE
    /\ pc' = "holes"
    /\ ends' = Append(ends, [contour |-> IF pc = "outline" THEN -1 ELSE hole,
                             how |-> "unsupported", at |-> GetPosition(graphic)])
    /\ UNCHANGED << aSegList, aTolerance, aPolygons, segList, graphic, prevPt, startPt,
                    holeNum, hole, result, walked, call, first, top, fp >>

\* default: of the switch, in either walk: return false at graphic's position.
WalkUnsupported ==
    /\ pc \in {"outline", "hole"}
    /\ ~IsChainShape(graphic)
    /\ aErrorLocation' = GetPosition(graphic)
    /\ result' = FALSE
    /\ pc' = "done"
    /\ ends' = Append(ends, [contour |-> IF pc = "outline" THEN -1 ELSE hole,
                             how |-> "unsupported", at |-> GetPosition(graphic)])
    /\ UNCHANGED << aSegList, aTolerance, aPolygons, locals, walked, call, first, top, fp >>

\* One turn of the outline's for(;;) that finds a next DRAWSEGMENT.
OutlineWalk ==
    /\ pc = "outline"
    /\ IsChainShape(graphic)
    /\ LET nextPt == WalkNextPt(graphic, prevPt, aTolerance)
           found  == findPoint(nextPt, segList, aTolerance)
       IN  /\ found.graphic # NULL
           /\ aPolygons' = AppendPoints(aPolygons, WalkPoints(graphic, prevPt, aTolerance), -1)
           /\ prevPt' = nextPt
           /\ graphic' = found.graphic
           /\ segList' = found.list
           /\ walked' = Append(walked, [graphic |-> found.graphic, contour |-> -1])
    /\ UNCHANGED << aSegList, aTolerance, aErrorLocation, startPt, holeNum, hole,
                    polygonComplete, pc, result, ends, call, first, top, fp >>

\* The turn that finds none: the outline is closed, or the call is not complete.
OutlineEnd ==
    /\ pc = "outline"
    /\ IsChainShape(graphic)
    /\ LET nextPt == WalkNextPt(graphic, prevPt, aTolerance)
           found  == findPoint(nextPt, segList, aTolerance)
           closed == close_enough(startPt, nextPt, aTolerance)
       IN  /\ found.graphic = NULL
           /\ aPolygons' = AppendPoints(aPolygons, WalkPoints(graphic, prevPt, aTolerance), -1)
           /\ prevPt' = nextPt
           /\ graphic' = NULL
           /\ aErrorLocation' = IF closed THEN aErrorLocation ELSE nextPt
           /\ polygonComplete' = (closed /\ polygonComplete)
           /\ ends' = Append(ends, [contour |-> -1,
                                    how |-> IF closed THEN "closed" ELSE "unclosed",
                                    at |-> nextPt])
    /\ pc' = "holes"
    /\ UNCHANGED << aSegList, aTolerance, segList, startPt, holeNum, hole,
                    result, walked, call, first, top, fp >>

\* while( segList.size() ): a circle, rectangle or polygon is a hole of its own.
HoleShape ==
    /\ pc = "holes"
    /\ Len(segList) > 0
    /\ LET g  == segList[1]
           ps == NewHole(aPolygons)
           h  == NewHoleIndex(ps)
       IN  /\ IsClosedShape(g)
           /\ hole' = h
           /\ holeNum' = holeNum + 1
           /\ graphic' = g
           /\ segList' = Tail(segList)
           /\ aPolygons' = AppendPoints(ps, ClosedShapePoints(g, aTolerance), h)
           /\ walked' = Append(walked, [graphic |-> g, contour |-> h])
           /\ ends' = Append(ends, [contour |-> h, how |-> "shape", at |-> NoPoint])
    /\ UNCHANGED << aSegList, aTolerance, aErrorLocation, prevPt, startPt,
                    polygonComplete, pc, result, call, first, top, fp >>

\* A faulty start of a hole, which does not count it.
HoleSeedNotCounted ==
    /\ pc = "holes"
    /\ Len(segList) > 0
    /\ LET g  == segList[1]
           ps == NewHole(aPolygons)
           h  == NewHoleIndex(ps)
       IN  /\ ~IsClosedShape(g)
           /\ hole' = h
           /\ holeNum' = holeNum
           /\ graphic' = g
           /\ segList' = Tail(segList)
           /\ startPt' = GetEnd(g)
           /\ prevPt' = GetEnd(g)
           /\ aPolygons' = AppendPoint(ps, GetEnd(g), h)
           /\ walked' = Append(walked, [graphic |-> g, contour |-> h])
    /\ pc' = "hole"
    /\ UNCHANGED << aSegList, aTolerance, aErrorLocation, polygonComplete, result,
                    ends, call, first, top, fp >>

\* Else the hole is a chain that starts at GetEnd() of the first DRAWSEGMENT left.
HoleSeed ==
    /\ pc = "holes"
    /\ Len(segList) > 0
    /\ LET g  == segList[1]
           ps == NewHole(aPolygons)
           h  == NewHoleIndex(ps)
       IN  /\ ~IsClosedShape(g)
           /\ hole' = h
           /\ holeNum' = holeNum + 1
           /\ graphic' = g
           /\ segList' = Tail(segList)
           /\ startPt' = GetEnd(g)
           /\ prevPt' = GetEnd(g)
           /\ aPolygons' = AppendPoint(ps, GetEnd(g), h)
           /\ walked' = Append(walked, [graphic |-> g, contour |-> h])
    /\ pc' = "hole"
    /\ UNCHANGED << aSegList, aTolerance, aErrorLocation, polygonComplete, result,
                    ends, call, first, top, fp >>

\* One turn of a hole's for(;;) that finds a next DRAWSEGMENT.
HoleWalk ==
    /\ pc = "hole"
    /\ IsChainShape(graphic)
    /\ LET nextPt == WalkNextPt(graphic, prevPt, aTolerance)
           found  == findPoint(nextPt, segList, aTolerance)
       IN  /\ found.graphic # NULL
           /\ aPolygons' = AppendPoints(aPolygons, WalkPoints(graphic, prevPt, aTolerance), hole)
           /\ prevPt' = nextPt
           /\ graphic' = found.graphic
           /\ segList' = found.list
           /\ walked' = Append(walked, [graphic |-> found.graphic, contour |-> hole])
    /\ UNCHANGED << aSegList, aTolerance, aErrorLocation, startPt, holeNum, hole,
                    polygonComplete, pc, result, ends, call, first, top, fp >>

\* The turn that finds none: the hole is closed, or it is marked open.
HoleEnd ==
    /\ pc = "hole"
    /\ IsChainShape(graphic)
    /\ LET nextPt == WalkNextPt(graphic, prevPt, aTolerance)
           found  == findPoint(nextPt, segList, aTolerance)
           closed == close_enough(startPt, nextPt, aTolerance)
           ps     == AppendPoints(aPolygons, WalkPoints(graphic, prevPt, aTolerance), hole)
       IN  /\ found.graphic = NULL
           /\ ~closed => HoleExists(ps, 0, holeNum)
           /\ aPolygons' = IF closed THEN ps ELSE SetHoleClosed(ps, 0, holeNum, FALSE)
           /\ prevPt' = nextPt
           /\ graphic' = NULL
           /\ aErrorLocation' = IF closed THEN aErrorLocation ELSE nextPt
           /\ polygonComplete' = (closed /\ polygonComplete)
           /\ ends' = Append(ends, [contour |-> hole,
                                    how |-> IF closed THEN "closed" ELSE "unclosed",
                                    at |-> nextPt])
    /\ pc' = "holes"
    /\ UNCHANGED << aSegList, aTolerance, segList, startPt, holeNum, hole,
                    result, walked, call, first, top, fp >>

\* Every contour of a set of polygons, as (polygon, hole) with -1 for the outline.
ContourIndexes(ps) ==
    { ix \in (0..(Len(ps) - 1)) \X (-1..(MaxCoord * MaxCoord)) : HoleExists(ps, ix[1], ix[2]) }

\* The same turn when polygon 0 has no hole holeNum, as it may when aPolygons
\* was not empty at entry: Hole( 0, holeNum ) refers to no contour and
\* SetClosed() writes through it.  The write lands in no contour or in any
\* one of them, and the call goes on or ends there.
HoleEndOutOfRange ==
    /\ pc = "hole"
    /\ IsChainShape(graphic)
    /\ LET nextPt == WalkNextPt(graphic, prevPt, aTolerance)
           found  == findPoint(nextPt, segList, aTolerance)
           closed == close_enough(startPt, nextPt, aTolerance)
           ps     == AppendPoints(aPolygons, WalkPoints(graphic, prevPt, aTolerance), hole)
       IN  /\ found.graphic = NULL
           /\ ~closed
           /\ ~HoleExists(ps, 0, holeNum)
           /\ aPolygons' \in { ps } \cup { SetHoleClosed(ps, ix[1], ix[2], FALSE) : ix \in ContourIndexes(ps) }
           /\ prevPt' = nextPt
           /\ graphic' = NULL
           /\ aErrorLocation' = nextPt
           /\ polygonComplete' = FALSE
           /\ ends' = Append(ends, [contour |-> hole, how |-> "unclosed", at |-> nextPt])
    /\ pc' \in { "holes", "crashed" }
    /\ UNCHANGED << aSegList, aTolerance, segList, startPt, holeNum, hole,
                    result, walked, call, first, top, fp >>

\* A faulty return, which forgets the chains that did not close.
CheckAndReturnChecked ==
    /\ pc = "holes"
    /\ Len(segList) = 0
    /\ LET check == CheckSegments(aPolygons)
       IN  /\ aErrorLocation' = IF check.found THEN check.location ELSE aErrorLocation
           /\ result' = IF check.found THEN FALSE ELSE TRUE
    /\ pc' = "done"
    /\ UNCHANGED << aSegList, aTolerance, aPolygons, locals, walked, ends, call, first, top, fp >>

\* A faulty return, which keeps the location of the first fault.
CheckAndReturnFirstFault ==
    /\ pc = "holes"
    /\ Len(segList) = 0
    /\ LET check == CheckSegments(aPolygons)
       IN  /\ aErrorLocation' = IF check.found /\ aErrorLocation = NoPoint THEN check.location ELSE aErrorLocation
           /\ result' = IF check.found THEN FALSE ELSE polygonComplete
    /\ pc' = "done"
    /\ UNCHANGED << aSegList, aTolerance, aPolygons, locals, walked, ends, call, first, top, fp >>

\* The pairwise check of the segments built, and the return.
CheckAndReturn ==
    /\ pc = "holes"
    /\ Len(segList) = 0
    /\ LET check == CheckSegments(aPolygons)
       IN  /\ aErrorLocation' = IF check.found THEN check.location ELSE aErrorLocation
           /\ result' = IF check.found THEN FALSE ELSE polygonComplete
    /\ pc' = "done"
    /\ UNCHANGED << aSegList, aTolerance, aPolygons, locals, walked, ends, call, first, top, fp >>

\* The caller calls again: the state at the entry of ConvertOutlineToPolygon.
Enter(list, tol) ==
    /\ aSegList' = list
    /\ aTolerance' = tol
    /\ aPolygons' = <<>>
    /\ aErrorLocation' = NoPoint
    /\ segList' = <<>>
    /\ graphic' = NULL
    /\ prevPt' = <<0, 0>>
    /\ startPt' = <<0, 0>>
    /\ holeNum' = -1
    /\ hole' = -1
    /\ polygonComplete' = TRUE
    /\ pc' = "start"
    /\ result' = TRUE
    /\ walked' = <<>>
    /\ ends' = <<>>

ThisCall(kind) ==
    [kind |-> kind, aSegList |-> aSegList, aTolerance |-> aTolerance,
     aPolygons |-> aPolygons, aErrorLocation |-> aErrorLocation,
     polygonComplete |-> polygonComplete, result |-> result, ends |-> ends]

\* The same list converted again with a larger tolerance.
CallWithLargerTolerance ==
    /\ pc = "done"
    /\ call = 1
    /\ top = NoTop
    /\ \E tol \in Tolerances :
          /\ tol > aTolerance
          /\ Enter(aSegList, tol)
    /\ call' = 2
    /\ first' = ThisCall("tolerance")
    /\ UNCHANGED << top, fp >>

\* The segments of every contour of a set of polygons, in order.
SegmentsOf(ps) ==
    LET segs == IterateSegmentsWithHoles(ps)
    IN  [i \in 1..Len(segs) |-> Segment(segs[i].A, segs[i].B)]

\* The polygons a complete call built, converted again as a list of segments.
CallWithOwnOutput ==
    /\ pc = "done"
    /\ call = 1
    /\ top = NoTop
    /\ result = TRUE
    /\ Enter(SegmentsOf(aPolygons), aTolerance)
    /\ call' = 2
    /\ first' = ThisCall("output")
    /\ UNCHANGED << top, fp >>

\* All the contours of a set of polygons: of each polygon the outline, then
\* its holes.
Contours(ps) == Flatten(ps)

\* BuildBoardPolygonOutlines, once the conversion of the board's edges (if
\* there are any) has returned: aOutlines is what the conversion built, or the
\* rectangle of a bounding box.
BuildBoardPolygonOutlines ==
    /\ pc = "done"
    /\ call = 1
    /\ top = NoTop
    /\ \E aBoard \in Boards :
          LET success  == IF Len(aSegList) > 0 THEN result ELSE FALSE
              fallback == ~success \/ OutlineCount(aPolygons) = 0
              bbbox    == GetBoardEdgesBoundingBox(aBoard)
          IN  top' = [caller |-> "board",
                      success |-> success,
                      aOutlines |-> IF fallback
                                    THEN BoxOutline(NonNullBox(bbbox, ComputeBoundingBox(aBoard)))
                                    ELSE aPolygons,
                      edges |-> IF fallback THEN bbbox ELSE NoBox,
                      all |-> IF fallback /\ IsNullArea(bbbox)
                              THEN ComputeBoundingBox(aBoard) ELSE NoBox,
                      pads |-> NoPads]
    /\ UNCHANGED << aSegList, aTolerance, aPolygons, aErrorLocation, locals, pc, result,
                    walked, ends, call, first, fp >>

\* BuildFootprintPolygonOutlines, once the conversion of the footprint's edges
\* has returned.  When an outline is there but the conversion failed, nothing
\* is written to aOutlines.
BuildFootprintPolygonOutlines ==
    /\ pc = "done"
    /\ call = 1
    /\ top = NoTop
    /\ \E aBoard \in Boards :
          /\ Collidable(aPolygons, Pads(aBoard))
          /\ LET success  == result
                 outlines == aPolygons
                 outside  == isCopperOutside(Pads(aBoard))
                 boxed    == (success /\ outside) \/ (~success /\ OutlineCount(outlines) = 0)
             IN  top' = [caller |-> "footprint",
                         success |-> success,
                         aOutlines |->
                             IF success
                             THEN IF outside
                                  THEN AddHoles(buildBoardBoundingBoxPoly(aBoard), Contours(outlines))
                                  ELSE outlines
                             ELSE IF OutlineCount(outlines) = 0
                                  THEN buildBoardBoundingBoxPoly(aBoard)
                                  ELSE top.aOutlines,
                         edges |-> NoBox,
                         all |-> IF boxed THEN GetBoundingBox(aBoard) ELSE NoBox,
                         pads |-> IF success THEN Pads(aBoard) ELSE NoPads]
    /\ UNCHANGED << aSegList, aTolerance, aPolygons, aErrorLocation, locals, pc, result,
                    walked, ends, call, first, fp >>

Next ==
    \/ ReturnEmpty
    \/ OutlineShape
    \/ OutlineSeed
    \/ WalkUnsupported
    \/ OutlineWalk
    \/ OutlineEnd
    \/ HoleShape
    \/ HoleSeed
    \/ HoleWalk
    \/ HoleEnd
    \/ CheckAndReturn
    \/ CallWithLargerTolerance
    \/ CallWithOwnOutput
    \/ BuildBoardPolygonOutlines
    \/ BuildFootprintPolygonOutlines

Spec == Init /\ [][Next]_vars

(***************************************************************************)
(* findPoint on its own: one call on a pool of up to MaxPool DRAWSEGMENTs,  *)
(* with any reference point of the grid and limits up to INT_MAX.  fp.at   *)
(* is "call" before the call and the return path taken after it.           *)
(***************************************************************************)
MaxPool == 3

FindPointGraphics ==
    { Segment(<<0, 0>>, <<1, 0>>),
      Segment(<<1, 0>>, <<1, 1>>),
      Segment(<<2, 2>>, <<2, 1>>),
      Arc(<<1, 1>>, <<1, 0>>, 900),
      Rect(<<0, 0>>, <<2, 2>>) }

FindPointPools == UNION { [1..n -> FindPointGraphics] : n \in 0..MaxPool }

FindPointPoints == (0..MaxCoord) \X (0..MaxCoord)

FindPointLimits == (0..(MaxTol + 1)) \cup { INT_MAX - 1, INT_MAX }

InitFindPoint ==
    /\ Entry(<<>>, 0)
    /\ call = 1
    /\ first = NoCall
    /\ top = NoTop
    /\ \E aPoint \in FindPointPoints, aList \in FindPointPools, aLimit \in FindPointLimits :
          fp = [at |-> "call", aPoint |-> aPoint, aList |-> aList, aLimit |-> aLimit,
                graphic |-> NULL, list |-> aList]

Returned(at) ==
    LET r == findPoint(fp.aPoint, fp.aList, fp.aLimit)
    IN  /\ fp' = [fp EXCEPT !.at = at, !.graphic = r.graphic, !.list = r.list]
        /\ UNCHANGED << aSegList, aTolerance, aPolygons, aErrorLocation, locals, pc, result,
                        walked, ends, call, first, top >>

\* An end of a DRAWSEGMENT is aPoint: erase it and return it, from inside the loop.
FindExact ==
    /\ fp.at = "call"
    /\ findPointScan(fp.aPoint, fp.aList, 1, INT_MAX, 1).exact
    /\ Returned("exact")

\* if( min_d <= aLimit ): erase and return aList[ndx_min].
FindNearest ==
    /\ fp.at = "call"
    /\ fp.aList # <<>>
    /\ LET s == findPointScan(fp.aPoint, fp.aList, 1, INT_MAX, 1)
       IN  ~s.exact /\ s.min_d <= fp.aLimit
    /\ Returned("nearest")

\* return NULL;
FindNothing ==
    /\ fp.at = "call"
    /\ LET s == findPointScan(fp.aPoint, fp.aList, 1, INT_MAX, 1)
       IN  ~s.exact /\ ~(s.min_d <= fp.aLimit)
    /\ Returned("null")

\* What a read of aList[0] and an erase of begin() of an empty vector may leave.
Undefined ==
    { [graphic |-> g, list |-> l] :
        g \in FindPointGraphics \cup { NULL },
        l \in { <<>> } \cup { << h >> : h \in FindPointGraphics } }

\* The list is empty and min_d, still INT_MAX, is <= aLimit: aList[0] is read
\* and erased though there is no such element.
FindInEmpty ==
    /\ fp.at = "call"
    /\ fp.aList = <<>>
    /\ INT_MAX <= fp.aLimit
    /\ \E r \in Undefined :
          fp' = [fp EXCEPT !.at = "undefined", !.graphic = r.graphic, !.list = r.list]
    /\ UNCHANGED << aSegList, aTolerance, aPolygons, aErrorLocation, locals, pc, result,
                    walked, ends, call, first, top >>

NextFindPoint ==
    \/ FindExact
    \/ FindNearest
    \/ FindNothing
    \/ FindInEmpty

SpecFindPoint == InitFindPoint /\ [][NextFindPoint]_vars

(***************************************************************************)
(* The conversion into polygons that are not empty at entry, as             *)
(* BuildBoardPolygonOutlines allows: it hands the aOutlines of its caller   *)
(* to ConvertOutlineToPolygon.  first.aPolygons keeps what they were.       *)
(***************************************************************************)
KeptOutline == AppendPoints(NewOutline(<<>>), << <<10, 10>>, <<14, 10>>, <<10, 14>> >>, -1)
KeptHole    == AppendPoints(NewHole(KeptOutline), << <<11, 11>>, <<12, 11>>, <<11, 12>> >>, 0)

KeptOutputs == { <<>>, KeptOutline, KeptHole }

\* A rectangle with two more DRAWSEGMENTs inside it: two holes.
HolePrimitives ==
    { Rect(<<1, 1>>, << Side - 1, Side - 1 >>) }
        \cup { Segment(a, b) : a, b \in Box(1, Side - 1) }

TwoHoles ==
    { << Rect(<<0, 0>>, <<MaxCoord, MaxCoord>>), g, h >> : g, h \in HolePrimitives }

KeptInputs ==
    UNION { [1..n -> FreePrimitives] : n \in 0..1 }
        \cup NestedInputs \cup ExtraInputs \cup TwoHoles

InitKept ==
    /\ \E list \in KeptInputs, tol \in Tolerances, ps \in KeptOutputs :
          /\ aSegList = list
          /\ aTolerance = tol
          /\ aPolygons = ps
          /\ first = [NoCall EXCEPT !.kind = "kept", !.aPolygons = ps]
    /\ aErrorLocation = NoPoint
    /\ segList = <<>>
    /\ graphic = NULL
    /\ prevPt = <<0, 0>>
    /\ startPt = <<0, 0>>
    /\ holeNum = -1
    /\ hole = -1
    /\ polygonComplete = TRUE
    /\ pc = "start"
    /\ result = TRUE
    /\ walked = <<>>
    /\ ends = <<>>
    /\ call = 1
    /\ top = NoTop
    /\ fp = NoFp

NextKept ==
    \/ ReturnEmpty
    \/ OutlineShape
    \/ OutlineSeed
    \/ WalkUnsupported
    \/ OutlineWalk
    \/ OutlineEnd
    \/ HoleShape
    \/ HoleSeed
    \/ HoleWalk
    \/ HoleEnd
    \/ HoleEndOutOfRange
    \/ CheckAndReturn

SpecKept == InitKept /\ [][NextKept]_vars

(***************************************************************************)
(* What the properties below speak of.                                     *)
(***************************************************************************)
Done == pc = "done"
FirstDone == pc = "done" /\ call = 1

OnlySegmentsAndArcs(list) == \A i \in DOMAIN list : GetShape(list[i]) \in {"S_SEGMENT", "S_ARC"}
OnlySegments(list) == \A i \in DOMAIN list : GetShape(list[i]) = "S_SEGMENT"

\* The two ends of list[i], swapped when i is in mask.
EndIn(list, mask, i)  == IF i \in mask THEN SecondEnd(list[i]) ELSE FirstEnd(list[i])
EndOut(list, mask, i) == IF i \in mask THEN FirstEnd(list[i]) ELSE SecondEnd(list[i])

\* list, in its order, is one closed loop of three or more primitives, none of
\* them of length 0: each ends within tol of where the next one starts, the
\* last one within tol of the start of the first.
ClosedLoop(list, tol) ==
    /\ Len(list) >= 3
    /\ OnlySegmentsAndArcs(list)
    /\ \A i \in 1..Len(list) : FirstEnd(list[i]) # SecondEnd(list[i])
    /\ \E mask \in SUBSET (1..Len(list)) :
          \A i \in 1..Len(list) :
              close_enough(EndOut(list, mask, i), EndIn(list, mask, (i % Len(list)) + 1), tol)

\* The straight edges of the input: a segment, or the chords of a flattened arc.
PrimitiveEdges(g, tol) ==
    IF GetShape(g) = "S_ARC"
    THEN LET angle == -GetAngle(g)
             steps == GetArcToSegmentCount(GetRadius(g), tol, angle \div 10)
             pts   == << GetArcStart(g) >> \o ArcPoints(GetArcStart(g), GetCenter(g), angle, steps)
         IN  [k \in 1..steps |-> [A |-> pts[k], B |-> pts[k + 1]]]
    ELSE << [A |-> GetStart(g), B |-> GetEnd(g)] >>

InputEdges(list, tol) == Flatten([i \in 1..Len(list) |-> PrimitiveEdges(list[i], tol)])

Between(a, x, b) == (a <= x /\ x <= b) \/ (b <= x /\ x <= a)

\* p lies on the segment s, and is not one of its ends.
StrictlyInside(p, s) ==
    /\ p # s.A
    /\ p # s.B
    /\ Cross(<< X(s.B) - X(s.A), Y(s.B) - Y(s.A) >>, << X(p) - X(s.A), Y(p) - Y(s.A) >>) = 0
    /\ Between(X(s.A), X(p), X(s.B))
    /\ Between(Y(s.A), Y(p), Y(s.B))

\* Two edges with no point in common but, at most, an end of both.
Apart(s1, s2) ==
    /\ ~SegmentsCollide(s1, s2)
    /\ ~StrictlyInside(s1.A, s2) /\ ~StrictlyInside(s1.B, s2)
    /\ ~StrictlyInside(s2.A, s1) /\ ~StrictlyInside(s2.B, s1)

\* No two edges of the input cross, touch away from a common end, or overlap.
SimpleInput(list, tol) ==
    LET edges == InputEdges(list, tol)
    IN  \A i, j \in DOMAIN edges : i < j => Apart(edges[i], edges[j])

OneOutlineNoHole(ps) == OutlineCount(ps) = 1 /\ HoleCount(ps, 0) = 0

WideArcs(list, tol) ==
    \A i \in DOMAIN list :
        GetShape(list[i]) = "S_ARC"
            => ~close_enough(GetArcStart(list[i]), GetArcEnd(list[i]), tol)

Outline(ps) == ps[1][1]
Hole(ps, aHole) == ps[1][aHole + 2]

Range(f) == { f[i] : i \in DOMAIN f }

Distinct(f) == \A i, j \in DOMAIN f : i # j => f[i] # f[j]

\* The end points of the primitives of a list.
Vertices(list) == UNION { { FirstEnd(list[i]), SecondEnd(list[i]) } : i \in DOMAIN list }

ExactSegmentLoop(list) == OnlySegments(list) /\ ClosedLoop(list, 0) /\ SimpleInput(list, 0)

\* C2 as claimed: at tolerance 0 the outline of a closed loop of n segments holds
\* the n vertices of the loop, each once, and the call returns true.
C2_EachVertexOnce ==
    (FirstDone /\ aTolerance = 0 /\ ExactSegmentLoop(aSegList))
        => /\ result = TRUE
           /\ Len(Outline(aPolygons).pts) = Len(aSegList)
           /\ Distinct(Outline(aPolygons).pts)
           /\ Range(Outline(aPolygons).pts) = Vertices(aSegList)

\* The square of the example, side Side, and the same with its last segment
\* shortened to end one unit before the origin.
Square ==
    << Segment(<<0, 0>>, <<Side, 0>>), Segment(<<Side, 0>>, <<Side, Side>>),
       Segment(<<Side, Side>>, <<0, Side>>), Segment(<<0, Side>>, <<0, 0>>) >>

GapSquare == [Square EXCEPT ![4].m_End = <<0, 1>>]

\* C3 as claimed: the square with a gap of one unit, at tolerance 0, returns
\* false with the error location at one of the two points that border the gap.
C3_GapLocation ==
    (FirstDone /\ aTolerance = 0 /\ aSegList = GapSquare)
        => (result = FALSE /\ aErrorLocation \in { <<0, 1>>, <<0, 0>> })

\* The primitives of a list with both ends among the points P, in list order.
Part(list, P) ==
    SelectSeq(list, LAMBDA g : FirstEnd(g) \in P /\ SecondEnd(g) \in P)

\* An outer loop on the corners of the outer box and a loop nested in it, on the
\* corners of the inner box; no two edges of the input cross, touch or overlap.
NestedLoops(list) ==
    /\ OnlySegments(list)
    /\ Len(Part(list, Box(0, Side))) + Len(Part(list, Box(1, Side - 1))) = Len(list)
    /\ ClosedLoop(Part(list, Box(0, Side)), 0)
    /\ ClosedLoop(Part(list, Box(1, Side - 1)), 0)
    /\ SimpleInput(list, 0)

\* C4 as claimed: an outer loop and a loop nested in it give one outline and one
\* hole, the hole with as many points as the nested loop has vertices.
C4_HolePointCount ==
    (FirstDone /\ aTolerance = 0 /\ NestedLoops(aSegList))
        => /\ OutlineCount(aPolygons) = 1
           /\ HoleCount(aPolygons, 0) = 1
           /\ Len(Hole(aPolygons, 0).pts) = Len(Part(aSegList, Box(1, Side - 1)))

\* A closed path of four segments over the corners of a box whose first and
\* third, or second and fourth, segments cross: it crosses at the box's centre.
Bowtie(list, lo, hi) ==
    /\ Len(list) = 4
    /\ OnlySegments(list)
    /\ ClosedLoop(list, 0)
    /\ Vertices(list) = Box(lo, hi)
    /\ \E i \in 1..2 :
          /\ X(GetStart(list[i])) # X(GetEnd(list[i]))
          /\ Y(GetStart(list[i])) # Y(GetEnd(list[i]))

Boxes == { <<lo, hi>> \in (0..MaxCoord) \X (0..MaxCoord) : lo < hi }

\* C5: a bowtie returns false, and the error location is the crossing point of
\* its diagonals (the centre of the box), rounded to the grid.
C5_BowtieRejected ==
    \A b \in Boxes :
        (FirstDone /\ top = NoTop /\ Bowtie(aSegList, b[1], b[2]))
            => /\ result = FALSE
               /\ Abs(2 * X(aErrorLocation) - (b[1] + b[2])) <= 1
               /\ Abs(2 * Y(aErrorLocation) - (b[1] + b[2])) <= 1

C5_Witness ==
    /\ FirstDone
    /\ Bowtie(aSegList, 0, Side - 1)
    /\ result = FALSE
    /\ polygonComplete
    /\ 2 * X(aErrorLocation) = Side - 1
    /\ 2 * Y(aErrorLocation) = Side - 1

\* The check of the segments ran: the call did not return out of a walk.
Returning == Done /\ top = NoTop

Checked == Returning /\ Len(aSegList) > 0 /\ \A k \in DOMAIN ends : ends[k].how # "unsupported"

BuiltSegments == IterateSegmentsWithHoles(aPolygons)

\* The pairs (i, j) of indexes up to n with i before j.
OrderedPairs(n) == UNION { { << i, j >> : j \in (i + 1)..n } : i \in 1..n }

SamePairs(segs) ==
    { pr \in OrderedPairs(Len(segs)) :
        SameSegment(segs[pr[1]], segs[pr[2]]) }

Before(pr, o) == pr[1] < o[1] \/ (pr[1] = o[1] /\ pr[2] < o[2])

\* C6 as claimed: two built segments with the same two end points make the call
\* return false with the error location at an end point of the first of the two.
C6_DuplicateLocation ==
    (Checked /\ call = 1 /\ SamePairs(BuiltSegments) # {})
        => /\ result = FALSE
           /\ \E pr \in SamePairs(BuiltSegments) :
                 aErrorLocation \in { BuiltSegments[pr[1]].A, BuiltSegments[pr[1]].B }

\* C6: two built segments with the same two end points make the call return
\* false; the error location is the A point of the first segment of the first
\* such pair unless a pair met before it crosses.
C6_FirstDuplicateLocation ==
    (Checked /\ call = 1 /\ SamePairs(BuiltSegments) # {})
        => /\ result = FALSE
           /\ LET segs == BuiltSegments
              IN  \A pr \in SamePairs(segs) :
                     (\A o \in (1..Len(segs)) \X (1..Len(segs)) :
                         (o[1] < o[2] /\ Before(o, pr))
                             => ~SegmentsCollide(segs[o[1]], segs[o[2]]))
                     => aErrorLocation = segs[pr[1]].A

\* A hole's segment repeats a segment of the outline: a pair across two contours.
C6_Witness ==
    /\ Checked
    /\ call = 1
    /\ HoleCount(aPolygons, 0) > 0
    /\ \E pr \in SamePairs(BuiltSegments) :
          /\ pr[1] <= SegmentCount(Outline(aPolygons))
          /\ pr[2] > SegmentCount(Outline(aPolygons))
          /\ BuiltSegments[pr[1]].A # BuiltSegments[pr[1]].B
          /\ aErrorLocation = BuiltSegments[pr[1]].A
          /\ \A o \in CollidingPairs(BuiltSegments) : ~Before(o, pr)
    /\ result = FALSE

Unclosed(es) == { k \in DOMAIN es : es[k].how = "unclosed" }

SecondDone(kind) == Done /\ call = 2 /\ first.kind = kind

\* C7 as claimed: a call that returned true, with every chain closed, is not
\* followed, on the same list at a larger tolerance, by a call that leaves a
\* chain unclosed.
C7_TrueStaysClosed ==
    (SecondDone("tolerance") /\ first.ends # <<>> /\ first.result = TRUE)
        => Unclosed(ends) = {}

Holes(ps) == IF ps = <<>> THEN 0 ELSE HoleCount(ps, 0)

\* C8 as claimed: the contours a call built out of a closed loop of segments,
\* converted again as segments at the same tolerance, give as many outlines and
\* as many holes.
C8_SameCounts ==
    (SecondDone("output") /\ ExactSegmentLoop(first.aSegList))
        => /\ OutlineCount(aPolygons) = OutlineCount(first.aPolygons)
           /\ Holes(aPolygons) = Holes(first.aPolygons)

\* C9 as claimed: every contour whose walk ended away from its start is marked
\* open in the polygons built, and the call returns false.
C9_UnclosedMarkedOpen ==
    (FirstDone /\ Unclosed(ends) # {})
        => /\ result = FALSE
           /\ \A k \in Unclosed(ends) : ~aPolygons[1][ends[k].contour + 2].closed

Count(f, x) == Cardinality({ i \in DOMAIN f : f[i] = x })

Graphics(w) == [i \in DOMAIN w |-> w[i].graphic]

\* C10: unless a walk met a primitive it does not support, on return the pool is
\* empty and every primitive of the input was taken once, into one contour, even
\* when the outline or an earlier hole did not close.
C10_EveryPrimitiveOnce ==
    (Checked /\ call = 1)
        => /\ segList = <<>>
           /\ Len(walked) = Len(aSegList)
           /\ \A i \in DOMAIN aSegList :
                 Count(Graphics(walked), aSegList[i]) = Count(aSegList, aSegList[i])
           /\ \A i \in DOMAIN walked : walked[i].contour \in -1..(Holes(aPolygons) - 1)

C10_Witness ==
    /\ Checked
    /\ call = 1
    /\ ends[1].how = "unclosed"
    /\ Cardinality(Unclosed(ends)) >= 2
    /\ Holes(aPolygons) >= 2
    /\ Len(aSegList) >= 4
    /\ segList = <<>>
    /\ Len(walked) = Len(aSegList)
    /\ { walked[i].contour : i \in DOMAIN walked } = -1..(Holes(aPolygons) - 1)

Last(f) == f[Len(f)]

HoleContours(es) == { es[k].contour : k \in DOMAIN es } \ { -1 }

\* C11: a walk that takes a circle, a rectangle or a polygon makes the call
\* return false at once, the error location at that DRAWSEGMENT's position:
\* it is the last one taken, no hole is added and the segments built are not
\* checked.
C11_UnsupportedReturnsAtOnce ==
    \A k \in DOMAIN ends :
        ends[k].how = "unsupported"
            => /\ k = Len(ends)
               /\ Done
               /\ result = FALSE
               /\ ~IsChainShape(Last(walked).graphic)
               /\ Last(walked).contour = ends[k].contour
               /\ aErrorLocation = GetPosition(Last(walked).graphic)
               /\ Holes(aPolygons) = Cardinality(HoleContours(ends))

\* The call returned out of a walk with DRAWSEGMENTs left and with built
\* segments that the check would have reported elsewhere.
C11_Witness ==
    /\ FirstDone
    /\ ends # <<>>
    /\ Last(ends).how = "unsupported"
    /\ IsClosedShape(Last(walked).graphic)
    /\ segList # <<>>
    /\ result = FALSE
    /\ aErrorLocation = GetPosition(Last(walked).graphic)
    /\ CheckSegments(aPolygons).found
    /\ CheckSegments(aPolygons).location # aErrorLocation

\* The DRAWSEGMENTs taken into contour c, in the order they were taken.
TakenInto(c) == SelectSeq(walked, LAMBDA w : w.contour = c)

\* C12 as claimed: every circle, rectangle and polygon of the input is a contour
\* of its own, the first and only DRAWSEGMENT taken into it; findPoint never
\* hands one to a walk.
C12_ClosedShapesBypassWalk ==
    FirstDone
        => \A i \in DOMAIN walked :
              IsClosedShape(walked[i].graphic)
                  => TakenInto(walked[i].contour) = << walked[i] >>

\* The DRAWSEGMENTs the call has not taken yet.
Pool == IF pc = "start" THEN aSegList ELSE segList

InWalk == pc \in {"outline", "hole"}

\* What is left to do: two for every DRAWSEGMENT of the pool, and the rest of
\* the loop the call is in.
Measure ==
    2 * Len(Pool) + (CASE InWalk -> 2 [] pc \in {"start", "holes"} -> 1 [] OTHER -> 0)

\* C13: every turn of a walk takes exactly one DRAWSEGMENT from the pool or ends
\* its chain, every turn of the hole loop takes one, and every step of the call
\* lowers a measure bounded by the size of the input: the call takes no more
\* DRAWSEGMENTs than the input has, and returns.
C13_EveryTurnTakesOrEnds ==
    [][ (pc # "done")
          => /\ InWalk =>
                  \/ /\ Len(segList') = Len(segList) - 1
                     /\ ends' = ends
                     /\ pc' = pc
                  \/ /\ segList' = segList
                     /\ Len(ends') = Len(ends) + 1
                     /\ pc' \in {"holes", "done"}
             /\ (pc = "holes" /\ segList # <<>>) => Len(segList') = Len(segList) - 1
             /\ Measure' < Measure
             /\ Measure <= 2 * Len(aSegList) + 1
             /\ Len(walked') <= Len(aSegList) ]_vars

C13_Witness ==
    /\ FirstDone
    /\ Len(aSegList) >= 6
    /\ Len(walked) = Len(aSegList)
    /\ Holes(aPolygons) >= 1
    /\ Cardinality(Unclosed(ends)) = 0
    /\ Measure = 0

\* sub is list with some of its elements left out.
RECURSIVE IsSubSeq(_, _)
IsSubSeq(sub, list) ==
    IF sub = <<>> THEN TRUE
    ELSE IF list = <<>> THEN FALSE
    ELSE IF Head(sub) = Head(list) THEN IsSubSeq(Tail(sub), Tail(list))
    ELSE IsSubSeq(sub, Tail(list))

\* C14: no step of the call changes the caller's list; what the call erases, it
\* erases from its copy, whose DRAWSEGMENTs stay those of the caller's list, in
\* their order and unmodified.
C14_CallerListUnchanged ==
    [][ (pc # "done")
          => /\ aSegList' = aSegList
             /\ IsSubSeq(segList', aSegList)
             /\ \A i \in DOMAIN walked' : walked'[i].graphic \in Range(aSegList) ]_vars

\* A call that emptied its copy, taking the DRAWSEGMENTs in another order than
\* the caller's list has them.
C14_Witness ==
    /\ FirstDone
    /\ Len(aSegList) >= 4
    /\ segList = <<>>
    /\ Len(walked) = Len(aSegList)
    /\ Graphics(walked) # aSegList

\* The closed contour through the four corners of a rectangle: origin,
\* (origin.x, end.y), end, (end.x, origin.y).
CornerContour(r) ==
    [pts |-> << r.pos,
                << X(r.pos), Y(r.pos) + Y(r.size) >>,
                << X(r.pos) + X(r.size), Y(r.pos) + Y(r.size) >>,
                << X(r.pos) + X(r.size), Y(r.pos) >> >>,
     closed |-> TRUE]

Degenerate(r) == X(r.size) = 0 \/ Y(r.size) = 0

Grown(r) ==
    [pos |-> << X(r.pos) - 1000000, Y(r.pos) - 1000000 >>,
     size |-> << X(r.size) + 2000000, Y(r.size) + 2000000 >>]

\* first, or whole when first has width or height 0; 1 mm larger on every side
\* when that has width or height 0 too.
UsableBox(firstBox, whole) ==
    LET b == IF Degenerate(firstBox) THEN whole ELSE firstBox
    IN  IF Degenerate(b) THEN Grown(b) ELSE b

\* C15: BuildBoardPolygonOutlines falls back exactly when the board has no
\* edges, the conversion returned false or it built no outline; then aOutlines
\* is one outline of the four corners of the edges' bounding box (of the box of
\* the whole board when that has no area, grown by 1 mm when that has none
\* either) and no hole; otherwise aOutlines is what the conversion built.
C15_BoardFallback ==
    (top.caller = "board")
        => IF aSegList = <<>> \/ result = FALSE \/ OutlineCount(aPolygons) = 0
           THEN top.aOutlines = << << CornerContour(UsableBox(top.edges, top.all)) >> >>
           ELSE top.aOutlines = aPolygons /\ top.success

\* The conversion built an outline and a hole but returned false, and neither
\* box of the board has an area.
C15_Witness ==
    /\ top.caller = "board"
    /\ result = FALSE
    /\ Holes(aPolygons) >= 1
    /\ Degenerate(top.edges)
    /\ Degenerate(top.all)
    /\ top.aOutlines = << << CornerContour(Grown(top.all)) >> >>
    /\ top.aOutlines # aPolygons

\* C16 as claimed: on return from either caller aOutlines holds at least one
\* outline.
C16_AlwaysAnOutline ==
    (top.caller # "none") => OutlineCount(top.aOutlines) >= 1

\* C17: when the conversion succeeds, BuildFootprintPolygonOutlines hands back
\* the bounding box rectangle with every outline and every hole built as its
\* holes if a pad has copper outside the shape built, and the polygons built,
\* unchanged, if not.
C17_FootprintCopper ==
    (top.caller = "footprint" /\ result = TRUE)
        => IF \E i \in DOMAIN top.pads : FALSE \in Range(top.pads[i])
           THEN top.aOutlines =
                    << << CornerContour(UsableBox(top.all, top.all)) >> \o Contours(aPolygons) >>
           ELSE top.aOutlines = aPolygons

\* Copper outside an outline with a hole: both become holes of the rectangle.
C17_Witness ==
    /\ top.caller = "footprint"
    /\ result = TRUE
    /\ Holes(aPolygons) >= 1
    /\ \E i \in DOMAIN top.pads : FALSE \in Range(top.pads[i])
    /\ OutlineCount(top.aOutlines) = 1
    /\ Holes(top.aOutlines) = 2 + Holes(aPolygons) - 1
    /\ top.aOutlines[1][2] = Outline(aPolygons)

\* One call of findPoint has returned.
Found == fp.at \notin { "none", "call" }

Without(list, i) == [k \in 1..(Len(list) - 1) |-> IF k < i THEN list[k] ELSE list[k + 1]]

\* C18 as claimed: findPoint removes from the pool the one element it returns
\* and keeps the order of the others, or returns NULL and leaves the pool as
\* it was.
C18_AtMostOneRemoval ==
    Found
        => IF fp.graphic = NULL
           THEN fp.list = fp.aList
           ELSE \E i \in DOMAIN fp.aList :
                    fp.aList[i] = fp.graphic /\ fp.list = Without(fp.aList, i)

\* The two end points findPoint compares with aPoint.
EndPoints(g) ==
    IF g.shape = "S_ARC"
    THEN { g.m_End, RotatePoint(g.m_End, g.m_Start, -g.m_Angle) }
    ELSE { g.m_Start, g.m_End }

ExactMatches == { i \in DOMAIN fp.aList : fp.aPoint \in EndPoints(fp.aList[i]) }

Lowest(S) == CHOOSE i \in S : \A j \in S : i <= j

\* C19: when an end point of a DRAWSEGMENT of the pool is the reference point,
\* findPoint returns and removes the first such DRAWSEGMENT of the pool,
\* whatever the limit.
C19_FirstExactMatch ==
    (Found /\ ExactMatches # {})
        => /\ fp.graphic = fp.aList[Lowest(ExactMatches)]
           /\ fp.list = Without(fp.aList, Lowest(ExactMatches))

\* Limit 0; the first DRAWSEGMENT of the pool does not match, the next two do,
\* and they are different.
C19_Witness ==
    /\ fp.at = "exact"
    /\ fp.aLimit = 0
    /\ ExactMatches = { 2, 3 }
    /\ fp.aList[2] # fp.aList[3]
    /\ fp.graphic = fp.aList[2]
    /\ fp.list = << fp.aList[1], fp.aList[3] >>

Distance(g) ==
    LET ds == { close_ness(fp.aPoint, e) : e \in EndPoints(g) }
    IN  CHOOSE d \in ds : \A e \in ds : d <= e

Nearest ==
    { i \in DOMAIN fp.aList :
        \A j \in DOMAIN fp.aList : Distance(fp.aList[i]) <= Distance(fp.aList[j]) }

\* C20 as claimed: when no end point is the reference point, findPoint returns
\* the first DRAWSEGMENT of the pool with an end point nearest to it if that
\* distance is within the limit, and NULL if it is not or if the pool is empty.
C20_NearestWithinLimit ==
    (Found /\ ExactMatches = {})
        => IF fp.aList # <<>> /\ Distance(fp.aList[Lowest(Nearest)]) <= fp.aLimit
           THEN fp.graphic = fp.aList[Lowest(Nearest)]
           ELSE fp.graphic = NULL

\* The first DRAWSEGMENT the call took: the start of the outline.
Started == call = 1 /\ walked # <<>>
JustStarted == Started /\ Len(walked) = 1
StartGraphic == walked[1].graphic

\* The points of a DRAWSEGMENT: both ends of a segment and of a rectangle, the
\* start of an arc and every point it is flattened to, the left most point of
\* a circle with a radius, the points of a curve and of a polygon.
PointsOf(g, tol) ==
    CASE g.shape \in {"S_SEGMENT", "S_RECT"} -> { g.m_Start, g.m_End }
      [] g.shape = "S_ARC" ->
            { g.m_End } \cup
            { RotatePoint(g.m_End, g.m_Start, ((-g.m_Angle) * k) \div (Abs(g.m_Angle) \div 900)) :
                k \in 1..(Abs(g.m_Angle) \div 900) }
      [] g.shape = "S_CIRCLE" ->
            IF GetRadius(g) > 0 THEN { << X(g.m_Start) - GetRadius(g), Y(g.m_Start) >> } ELSE {}
      [] OTHER -> Range(g.m_Pts)

\* The same, without the start of an arc.
ScannedPointsOf(g, tol) ==
    IF g.shape = "S_ARC"
    THEN { RotatePoint(g.m_End, g.m_Start, ((-g.m_Angle) * k) \div (Abs(g.m_Angle) \div 900)) :
             k \in 1..(Abs(g.m_Angle) \div 900) }
    ELSE PointsOf(g, tol)

LeftMost(list, P(_, _)) ==
    { i \in DOMAIN list :
        \E p \in P(list[i], aTolerance) :
            \A j \in DOMAIN list : \A q \in P(list[j], aTolerance) : X(p) <= X(q) }

\* C21 as claimed: the outline starts with the first DRAWSEGMENT of the list
\* that has a point of the least x of all the points of the list.
C21_StartsAtLeftMost ==
    (Started /\ LeftMost(aSegList, PointsOf) # {})
        => StartGraphic = aSegList[Lowest(LeftMost(aSegList, PointsOf))]

\* C21: the outline starts with the first DRAWSEGMENT of the list that has a
\* point of the least x of all the points the scan compares, which are not the
\* start of an arc; when the scan compares no point, it starts with the first
\* DRAWSEGMENT of the list.
C21_StartsAtLeftMostScanned ==
    JustStarted
        => StartGraphic =
              IF LeftMost(aSegList, ScannedPointsOf) # {}
              THEN aSegList[Lowest(LeftMost(aSegList, ScannedPointsOf))]
              ELSE aSegList[1]

\* The second DRAWSEGMENT of the list starts the outline: it has a point further
\* left than every point the scan compares of the first, an arc, whose start is
\* as far left.
C21_Witness ==
    /\ JustStarted
    /\ Len(aSegList) = 2
    /\ StartGraphic = aSegList[2]
    /\ StartGraphic # aSegList[1]
    /\ LeftMost(aSegList, ScannedPointsOf) = { 2 }
    /\ 1 \in LeftMost(aSegList, PointsOf)
    /\ aSegList[1].shape = "S_ARC"

\* A circle whose radius is not positive.
MalformedCircle(g) == g.shape = "S_CIRCLE" /\ GetRadius(g) <= 0

\* C22: a circle with a radius <= 0 gives the scan no point: it starts the
\* outline only when no DRAWSEGMENT of the list gives one, as the first of the
\* list; and every step of a call on a list that holds one brings the return
\* nearer.
C22_MalformedCircleSkipped ==
    /\ [](Started /\ MalformedCircle(StartGraphic)
            => /\ \A i \in DOMAIN aSegList : ScannedPointsOf(aSegList[i], aTolerance) = {}
               /\ StartGraphic = aSegList[1])
    /\ [][ (pc # "done" /\ \E i \in DOMAIN aSegList : MalformedCircle(aSegList[i]))
             => Measure' < Measure /\ Measure' >= 0 ]_vars

\* The call has returned; the list starts with a circle of radius 0, before a
\* DRAWSEGMENT as far left as its centre, which started the outline; the circle
\* was taken after it.
C22_Witness ==
    /\ FirstDone
    /\ Len(aSegList) = 2
    /\ MalformedCircle(aSegList[1])
    /\ \E p \in ScannedPointsOf(aSegList[2], aTolerance) : X(p) >= X(aSegList[1].m_Start)
    /\ Graphics(walked) = << aSegList[2], aSegList[1] >>

\* The walk is about to take the arc in graphic, standing at prevPt.
AtArc == InWalk /\ graphic.shape = "S_ARC"

ArcStartPoint(g) == g.m_End
ArcEndPoint(g) == RotatePoint(g.m_End, g.m_Start, -g.m_Angle)

\* C23 as claimed: an arc is walked from the end point nearest to the current
\* point, from its end when that is nearer than its start, and the current
\* point after it is its other end point.
C23_ArcFromNearestEnd ==
    [][ AtArc
          => prevPt' = IF close_ness(prevPt, ArcStartPoint(graphic))
                            <= close_ness(prevPt, ArcEndPoint(graphic))
                       THEN ArcEndPoint(graphic)
                       ELSE ArcStartPoint(graphic) ]_vars

\* The walk is about to take the segment in graphic, standing at prevPt.
AtSegment == InWalk /\ graphic.shape = "S_SEGMENT"

\* The contour the walk is building, in a set of polygons.
Building(ps) == ps[Len(ps)][(IF pc = "outline" THEN -1 ELSE hole) + 2].pts

\* graphic is the first DRAWSEGMENT of the chain the walk is in.
FirstOfChain == Len(TakenInto(Last(walked).contour)) = 1

\* The end point of a segment farther from p, its end when both are as far.
FarEnd(g, p) ==
    IF close_ness(p, g.m_Start) > close_ness(p, g.m_End) THEN g.m_Start ELSE g.m_End

\* C24: a segment taken in a walk gives the contour one point, its end point
\* farther from the current point (its end when both are as far), which is
\* the current point after it; a point equal to the last point of the contour
\* is not stored twice.  The first segment of a chain, entered at its end,
\* gives its start.
C24_SegmentFarEnd ==
    [][ AtSegment
          => /\ prevPt' = FarEnd(graphic, prevPt)
             /\ Last(Building(aPolygons')) = FarEnd(graphic, prevPt)
             /\ Building(aPolygons') =
                   IF Last(Building(aPolygons)) = FarEnd(graphic, prevPt)
                   THEN Building(aPolygons)
                   ELSE Append(Building(aPolygons), FarEnd(graphic, prevPt))
             /\ FirstOfChain => prevPt = graphic.m_End /\ prevPt' = graphic.m_Start ]_vars

\* Two segments were walked, the first from its end to its start, the second
\* from its start to its end, and a third is about to be.
C24_Witness ==
    /\ call = 1
    /\ pc = "outline"
    /\ Len(walked) = 3
    /\ OnlySegments(Graphics(walked))
    /\ walked[1].graphic.m_Start # walked[1].graphic.m_End
    /\ walked[2].graphic.m_Start # walked[2].graphic.m_End
    /\ Outline(aPolygons).pts =
          << walked[1].graphic.m_End, walked[1].graphic.m_Start, walked[2].graphic.m_End >>
    /\ prevPt = walked[2].graphic.m_End

\* Two segments built with the same two end points, in opposite order.
Reversed(s1, s2) == s1.A = s2.B /\ s1.B = s2.A /\ s1.A # s1.B

ReversedPairs(segs) ==
    { pr \in OrderedPairs(Len(segs)) :
        Reversed(segs[pr[1]], segs[pr[2]]) }

CrossingPairs(segs) ==
    { pr \in OrderedPairs(Len(segs)) :
        Intersect(segs[pr[1]], segs[pr[2]]) # NoPoint }

\* At tolerance 0 every chain closed, and of the segments built no two cross
\* and no two are equal, but two are each other's reverse.
OnlyReversed ==
    /\ Checked
    /\ call = 1
    /\ aTolerance = 0
    /\ polygonComplete
    /\ ReversedPairs(BuiltSegments) # {}
    /\ CrossingPairs(BuiltSegments) = {}
    /\ \A pr \in SamePairs(BuiltSegments) :
          BuiltSegments[pr[1]] # BuiltSegments[pr[2]]

C26_ReversedArcNearItsEnd ==
    (AtArc /\ close_ness(prevPt, ArcStartPoint(graphic)) > aTolerance)
        => close_ness(prevPt, ArcEndPoint(graphic)) <= aTolerance

\* The walk of a hole is about to take, from its end, an arc that findPoint
\* returned for a point one unit away from that end.
C26_Witness ==
    /\ call = 1
    /\ pc = "hole"
    /\ AtArc
    /\ ~FirstOfChain
    /\ close_ness(prevPt, ArcStartPoint(graphic)) > aTolerance
    /\ close_ness(prevPt, ArcEndPoint(graphic)) = 1

\* The chains the call walked to their end, and where each started: the first
\* point of its contour.
Chains == { k \in DOMAIN ends : ends[k].how \in { "closed", "unclosed" } }
ChainStart(k) == aPolygons[1][ends[k].contour + 2].pts[1]

\* Two segments built that are equal or each other's reverse.
OverlappingPairs(segs) ==
    { pr \in OrderedPairs(Len(segs)) :
        \/ segs[pr[1]] = segs[pr[2]]
        \/ (segs[pr[1]].A = segs[pr[2]].B /\ segs[pr[1]].B = segs[pr[2]].A) }

\* C27: the call returns true if and only if the list is empty, or no walk met
\* a DRAWSEGMENT it does not support, every chain ended within the tolerance of
\* its start, and no two segments built are equal, each other's reverse or
\* cross.
C27_TrueIffComplete ==
    Returning
        => (result = TRUE
              <=> \/ aSegList = <<>>
                  \/ /\ \A k \in DOMAIN ends : ends[k].how # "unsupported"
                     /\ \A k \in Chains : close_ness(ChainStart(k), ends[k].at) <= aTolerance
                     /\ OverlappingPairs(BuiltSegments) = {}
                     /\ CrossingPairs(BuiltSegments) = {})

\* A call that returned false only because the chain of a hole did not end
\* near its start: the outline is closed and no two segments built collide.
C27_Witness ==
    /\ FirstDone
    /\ result = FALSE
    /\ \A k \in DOMAIN ends : ends[k].how # "unsupported"
    /\ OverlappingPairs(BuiltSegments) = {}
    /\ CrossingPairs(BuiltSegments) = {}
    /\ Cardinality(Chains) >= 2
    /\ \E k \in Chains :
          /\ ends[k].contour >= 0
          /\ close_ness(ChainStart(k), ends[k].at) > aTolerance
          /\ \A j \in Chains \ { k } : close_ness(ChainStart(j), ends[j].at) <= aTolerance

\* The faults of the walks, in the order the call met them.
WalkFaults == SelectSeq(ends, LAMBDA e : e.how \in { "unclosed", "unsupported" })

\* The first pair of segments built that overlap or cross, and its location.
HitPairs == OverlappingPairs(BuiltSegments) \cup CrossingPairs(BuiltSegments)
HitLocation ==
    LET segs == BuiltSegments
        over == OverlappingPairs(segs)
        hits == over \cup CrossingPairs(segs)
        pr   == CHOOSE p \in hits : \A o \in hits : p = o \/ Before(p, o)
    IN  IF pr \in over
        THEN segs[pr[1]].A
        ELSE Intersect(segs[pr[1]], segs[pr[2]])

\* C28: the error location the caller sees is that of the last fault the call
\* met: of the check of the segments built when it found a pair, else of the
\* last walk that did not close or met a DRAWSEGMENT it does not support; and
\* it is as it was at entry when the call met no fault.
C28_LastFaultLocation ==
    (Returning /\ aSegList # <<>>)
        => aErrorLocation =
              IF Checked /\ HitPairs # {} THEN HitLocation
              ELSE IF WalkFaults # <<>> THEN Last(WalkFaults).at
              ELSE NoPoint

\* Three faults at three places: the outline did not close, a hole did not
\* close, and the check found a pair; the location is that of the pair.
C28_Witness ==
    /\ FirstDone
    /\ Checked
    /\ Len(WalkFaults) >= 2
    /\ WalkFaults[1].contour = -1
    /\ Last(WalkFaults).contour >= 0
    /\ HitPairs # {}
    /\ HitLocation # Last(WalkFaults).at
    /\ HitLocation # WalkFaults[1].at
    /\ WalkFaults[1].at # Last(WalkFaults).at
    /\ aErrorLocation = HitLocation

\* C29: called with no DRAWSEGMENT at all, ConvertOutlineToPolygon returns
\* true at once and leaves the polygons and the error location as they were
\* at entry; a true return then comes with no outline in the polygons.
C29_EmptyListReturnsTrue ==
    [][ (pc = "start" /\ aSegList = <<>>)
            => /\ pc' = "done"
               /\ result' = TRUE
               /\ aPolygons' = aPolygons
               /\ aErrorLocation' = aErrorLocation
               /\ OutlineCount(aPolygons') = 0 ]_vars

\* A footprint with no edge: the conversion succeeded and there is no outline.
C29_Witness ==
    /\ FirstDone
    /\ aSegList = <<>>
    /\ result = TRUE
    /\ walked = <<>>
    /\ OutlineCount(aPolygons) = 0
    /\ aErrorLocation = NoPoint
    /\ top.caller = "footprint"
    /\ top.success
    /\ OutlineCount(top.aOutlines) = 0

\* The polygons the call was given at entry, and the holes of a polygon that
\* are marked open.
Kept == first.aPolygons
OpenHoles(ps, aOutline) ==
    { h \in 0..(HoleCount(ps, aOutline) - 1) : ~ps[aOutline + 1][h + 2].closed }

\* C30: with no polygon at entry every contour of the call is in polygon 0,
\* during a hole walk holeNum is the index of the hole being built, the last
\* of polygon 0, and the holes marked open are exactly those whose walk did
\* not close; with polygons at entry, these keep their place, their contours
\* and their points, and the contours of the call are in one more polygon
\* after them.
C30_HolesOfOutlineZero ==
    /\ Kept = <<>>
         => /\ Len(aPolygons) <= 1
            /\ \A i \in DOMAIN walked : HoleExists(aPolygons, 0, walked[i].contour)
            /\ pc = "hole" => /\ holeNum = hole
                              /\ hole = HoleCount(aPolygons, 0) - 1
            /\ aPolygons # <<>>
                 => /\ aPolygons[1][1].closed
                    /\ OpenHoles(aPolygons, 0)
                         = { ends[k].contour : k \in { n \in DOMAIN ends : ends[n].how = "unclosed"
                                                                         /\ ends[n].contour >= 0 } }
    /\ Kept # <<>>
         => /\ Len(aPolygons) \in { Len(Kept), Len(Kept) + 1 }
            /\ \A i \in DOMAIN Kept :
                  /\ Len(aPolygons[i]) = Len(Kept[i])
                  /\ \A j \in DOMAIN Kept[i] : aPolygons[i][j].pts = Kept[i][j].pts
            /\ \A i \in DOMAIN walked :
                  /\ Len(aPolygons) = Len(Kept) + 1
                  /\ HoleExists(aPolygons, Len(Kept), walked[i].contour)

\* Two holes in polygons empty at entry: the first closed, the second a walk
\* that did not close, and only the second is marked open.
C30_Witness ==
    /\ pc = "done"
    /\ first.kind = "kept"
    /\ Kept = <<>>
    /\ Len(aPolygons) = 1
    /\ HoleCount(aPolygons, 0) = 2
    /\ holeNum = 1
    /\ OpenHoles(aPolygons, 0) = { 1 }
    /\ Len(aPolygons[1][2].pts) >= 3
    /\ \E k \in DOMAIN ends : ends[k].how = "unclosed" /\ ends[k].contour = 1

=============================================================================
